---- MODULE Spec2Model ----
(***************************************************************************)
(* Model of models/base/classifier.py: the Classifier base class, which    *)
(* wraps a scikit-learn estimator (attribute clf), turns its class         *)
(* probabilities into a ranking of the ranking_size most likely labels,    *)
(* and scores rankings (MRR, Top30, accuracy, mean rank).                  *)
(*                                                                         *)
(* One call of a method is one action.  A call leaves its arguments in     *)
(* args and what it returned or raised in result; Return hands control     *)
(* back to the caller.  Scores are exact rationals <<num, den>>; the       *)
(* rounding of Python floats is not modelled.                              *)
(***************************************************************************)
EXTENDS Integers, Sequences, FiniteSets, TLC

\* ----------------------------------------------------------------- bounds
MaxN == 2        \* most samples in one call of fit, predict or score
MaxRows == 2     \* most rows of a prediction matrix scored on its own
MaxK == 3        \* largest ranking_size and widest prediction row
MaxLabel == 3    \* labels are 1..MaxLabel
MaxProb == 1     \* a probability is one of 0..MaxProb

\* The literal 30 of top30_score.
Top30 == 30

\* One feature per sample, a finite number or not (nan, inf).
Finite == "finite"
NaN == "nan"
FeatureVals == {Finite, NaN}
Labels == 1..MaxLabel
ProbVals == 0..MaxProb
RankingSizes == 0..MaxK

\* The exceptions a call can end with.  check_X_y and check_array raise
\* ValueError, which the specification calls ValidationError.
ValidationError == "ValueError"
NotFittedError == "NotFittedError"
NotImplemented == "NotImplementedError"
AttributeError == "AttributeError"

\* -------------------------------------------------------------- sequences
SeqsUpTo(S, n) == UNION {[1..k -> S] : k \in 0..n}
Min2(a, b) == IF a <= b THEN a ELSE b
Max2(a, b) == IF a >= b THEN a ELSE b
MinOf(S) == CHOOSE x \in S : \A z \in S : x <= z
MaxOf(S) == CHOOSE x \in S : \A z \in S : x >= z
Range(s) == {s[j] : j \in 1..Len(s)}

\* -------------------------------------------------------------- rationals
RECURSIVE GCD(_, _)
GCD(a, b) == IF b = 0 THEN a ELSE GCD(b, a % b)
Rat(n, d) == LET g == GCD(n, d) IN IF g = 0 THEN <<0, 1>> ELSE <<n \div g, d \div g>>
RatAdd(a, b) == Rat(a[1] * b[2] + b[1] * a[2], a[2] * b[2])
RatMul(a, b) == Rat(a[1] * b[1], a[2] * b[2])
RatLeq(a, b) == a[1] * b[2] <= b[1] * a[2]
Zero == <<0, 1>>
One == <<1, 1>>

\* The sum of q[lo..hi].  Exact sums do not depend on the order of the
\* additions; halving the range keeps the evaluation shallow.
RECURSIVE SumRat(_, _, _)
SumRat(q, lo, hi) ==
    IF lo > hi THEN Zero
    ELSE IF lo = hi THEN q[lo]
    ELSE RatAdd(SumRat(q, lo, (lo + hi) \div 2), SumRat(q, (lo + hi) \div 2 + 1, hi))

RECURSIVE SumInt(_, _, _)
SumInt(q, lo, hi) ==
    IF lo > hi THEN 0
    ELSE IF lo = hi THEN q[lo]
    ELSE SumInt(q, lo, (lo + hi) \div 2) + SumInt(q, (lo + hi) \div 2 + 1, hi)

\* ------------------------------------------------------------------ state
VARIABLES
    clf,            \* the wrapped estimator: [present, predict_proba, classes_]
    ranking_size,   \* self.ranking_size
    attrs,          \* which of X_, y_, classes_ are attributes of self
    X_,             \* self.X_      (<<>> while not an attribute)
    y_,             \* self.y_
    classes_,       \* self.classes_
    pc,             \* "idle": the caller may call; "returned": a call ended
    args,           \* the arguments of the last call
    result          \* what the last call returned or raised

inst == <<clf, ranking_size, attrs, X_, y_, classes_>>
vars == <<clf, ranking_size, attrs, X_, y_, classes_, pc, args, result>>

NoArgs == [X |-> <<>>, y |-> <<>>, return_proba |-> FALSE, probas |-> <<>>,
           y_true |-> <<>>, y_pred |-> <<>>]
NoResult == [op |-> "none", outcome |-> "none", kind |-> "none",
             num |-> Zero, labels |-> <<>>, probas |-> <<>>]

Raised(op, exc) == [NoResult EXCEPT !.op = op, !.outcome = exc]
Number(op, q) == [NoResult EXCEPT !.op = op, !.outcome = "ok", !.kind = "number", !.num = q]
Sentinel(op, k) == [NoResult EXCEPT !.op = op, !.outcome = "ok", !.kind = k]

hasattr(a) == a \in attrs

\* The three kinds of instance: the bare base class, a subclass whose clf
\* has no predict_proba, a subclass whose clf has one.
Estimators ==
    { [present |-> FALSE, predict_proba |-> FALSE, classes_ |-> <<>>],
      [present |-> TRUE, predict_proba |-> FALSE, classes_ |-> <<>>],
      [present |-> TRUE, predict_proba |-> TRUE, classes_ |-> <<>>] }

Init ==
    /\ clf \in Estimators
    /\ ranking_size \in RankingSizes
    /\ attrs = {}
    /\ X_ = <<>>
    /\ y_ = <<>>
    /\ classes_ = <<>>
    /\ pc = "idle"
    /\ args = NoArgs
    /\ result = NoResult

\* -------------------------------------------------------------------- fit
\* check_array: at least one sample, every value finite.
check_array(X) == Len(X) >= 1 /\ \A i \in 1..Len(X) : X[i] # NaN

\* check_X_y: X passes check_array and y has one label per sample.
check_X_y(X, y) == check_array(X) /\ Len(y) = Len(X)

\* unique_labels / the estimator's classes_: the distinct labels, ascending.
RECURSIVE SortedSeq(_)
SortedSeq(S) == IF S = {} THEN <<>> ELSE <<MinOf(S)>> \o SortedSeq(S \ {MinOf(S)})
unique_labels(y) == SortedSeq(Range(y))

\* A fit that stored X before validating it.
fit_X_stored_early(X, y) == X

\* self.X_ after fit(X, y): assigned only once check_X_y has passed.
fit_X_(X, y) == IF check_X_y(X, y) THEN X ELSE X_

\* The wrapped estimator's classes_ after clf.fit(X, y): scikit-learn
\* estimators keep the distinct labels of y, ascending.
clf_fit(y) == unique_labels(y)

\* self.classes_ after a fit(X, y) that passed validation.
fit_classes_(y) ==
    IF clf.present THEN clf_fit(y)
    ELSE IF hasattr("classes_") THEN classes_
    ELSE unique_labels(y)

fit(X, y) ==
    /\ pc = "idle"
    /\ pc' = "returned"
    /\ args' = [NoArgs EXCEPT !.X = X, !.y = y]
    /\ X_' = fit_X_(X, y)
    /\ IF check_X_y(X, y)
       THEN /\ clf' = IF clf.present THEN [clf EXCEPT !.classes_ = clf_fit(y)]
                      ELSE clf
            /\ y_' = y
            /\ classes_' = fit_classes_(y)
            /\ attrs' = attrs \cup {"X_", "y_", "classes_"}
            /\ result' = Sentinel("fit", "self")
       ELSE /\ result' = Raised("fit", ValidationError)
            /\ UNCHANGED <<clf, y_, classes_, attrs>>
    /\ UNCHANGED ranking_size

\* The call has ended: the caller has its value or its exception.
Return ==
    /\ pc = "returned"
    /\ pc' = "idle"
    /\ args' = NoArgs
    /\ result' = NoResult
    /\ UNCHANGED inst

\* ---------------------------------------------------------------- predict
\* A predict that validated X before asking whether fit was called.
predict_validates_first(X) ==
    IF ~clf.present THEN NotImplemented
    ELSE IF ~clf.predict_proba THEN NotImplemented
    ELSE IF ~check_array(X) THEN ValidationError
    ELSE IF ~(hasattr("X_") /\ hasattr("y_")) THEN NotFittedError
    ELSE "ok"

\* How predict(X) ends before it asks the estimator for probabilities:
\* the checks of lines 47-58, in the order the code makes them.
predict_outcome(X) ==
    IF ~clf.present THEN NotImplemented
    ELSE IF ~clf.predict_proba THEN NotImplemented
    ELSE IF ~(hasattr("X_") /\ hasattr("y_")) THEN NotFittedError
    ELSE IF ~check_array(X) THEN ValidationError
    ELSE "ok"

\* clf.predict_proba(X): one row per sample, one column per class of the
\* estimator.  The estimator is not part of this code: any matrix.
ProbaMatrices(X) ==
    IF predict_outcome(X) = "ok"
    THEN [1..Len(X) -> [1..Len(clf.classes_) -> ProbVals]]
    ELSE {<<>>}

\* np.argsort of one row: a permutation of the column indices that lists
\* the probabilities in ascending order.  The default sort is not stable,
\* so equal probabilities may come in any order.
ColumnOrders(n) == {p \in [1..n -> 1..n] : \A a, b \in 1..n : a # b => p[a] # p[b]}
IsArgsort(row, p) == \A j \in 1..(Len(row) - 1) : row[p[j]] <= row[p[j + 1]]
Argsorts(probas) ==
    {o \in [1..Len(probas) -> ColumnOrders(IF Len(probas) = 0 THEN 0 ELSE Len(probas[1]))] :
        \A i \in 1..Len(probas) : IsArgsort(probas[i], o[i])}

\* s[:k]: the first k entries.
take_first(s, k) == SubSeq(s, 1, Min2(k, Len(s)))

\* A slice that kept the k least probable classes, [:ranking_size].
take_lowest(s, k) == IF k = 0 THEN s ELSE SubSeq(s, 1, Min2(k, Len(s)))

\* s[-k:]: the last k entries, all of them when k = 0 or k >= len(s).
take_last(s, k) == SubSeq(s, (IF k = 0 THEN 0 ELSE Max2(Len(s) - k, 0)) + 1, Len(s))

\* np.flip along the row.
flip(s) == [j \in 1..Len(s) |-> s[Len(s) + 1 - j]]

\* top_predictions of one sample, from the argsort of its row.
top_predictions(order) == flip(take_last(order, ranking_size))

\* self.classes_[top_predictions]
labels_of(top) == [j \in 1..Len(top) |-> classes_[top[j]]]

\* [probas[i, pred] ...]: the probabilities of the predicted classes.
probas_of(row, top) == [j \in 1..Len(top) |-> row[top[j]]]

y_predicted(order) == [i \in 1..Len(order) |-> labels_of(top_predictions(order[i]))]

predict(X, return_proba, probas, order) ==
    /\ pc = "idle"
    /\ pc' = "returned"
    /\ args' = [NoArgs EXCEPT !.X = X, !.return_proba = return_proba, !.probas = probas]
    /\ result' =
         IF predict_outcome(X) # "ok" THEN Raised("predict", predict_outcome(X))
         ELSE [NoResult EXCEPT
                 !.op = "predict", !.outcome = "ok",
                 !.kind = IF return_proba THEN "labels_probas" ELSE "labels",
                 !.labels = y_predicted(order),
                 !.probas = IF return_proba
                            THEN [i \in 1..Len(X) |->
                                     probas_of(probas[i], top_predictions(order[i]))]
                            ELSE <<>>]
    /\ UNCHANGED inst

\* ---------------------------------------------------------------- scoring
\* np.where(row == v)[0]: the positions holding v (1-based here).
where(row, v) == {j \in 1..Len(row) : row[j] = v}

\* A rank taken from the last occurrence, [0][-1].
last_rank(row, v) == MaxOf(where(row, v))

\* np.where(...)[0][0] + 1: the first of them.
first_rank(row, v) == MinOf(where(row, v))

\* The try block of one sample: y_true[idx] raises IndexError when y_true is
\* too short and [0][0] raises it when the label is not in the row; both
\* are caught, and the sample is passed over.
found(y_true, row, idx) == idx <= Len(y_true) /\ where(row, y_true[idx]) # {}

\* The loop of mrr_score: score += 1./(rank+1) for every sample found.
mrr_sum(y_true, y_pred) ==
    SumRat([idx \in 1..Len(y_pred) |->
               IF found(y_true, y_pred[idx], idx)
               THEN Rat(1, first_rank(y_pred[idx], y_true[idx]))
               ELSE Zero],
           1, Len(y_pred))

\* 1./len(y_pred) * score
mean_of(y_pred, score) == RatMul(Rat(1, Len(y_pred)), score)

mrr_value(y_true, y_pred) == mean_of(y_pred, mrr_sum(y_true, y_pred))

\* A window that skipped the first prediction of the row.
top30_window_after_first(y_pred, row) == SubSeq(row, 2, Min2(Top30, Len(y_pred)))

\* A window one prediction shorter than the code's.
top30_window_short(y_pred, row) == take_first(row, Min2(Top30 - 1, Len(y_pred)))

\* y[:min(30, len(y_pred))]: the slice is cut to the number of samples.
top30_window(y_pred, row) == take_first(row, Min2(Top30, Len(y_pred)))

\* The loop of top30_score: score += 1. for every sample found in its window.
top30_sum(y_true, y_pred) ==
    SumInt([idx \in 1..Len(y_pred) |->
               IF found(y_true, top30_window(y_pred, y_pred[idx]), idx) THEN 1 ELSE 0],
           1, Len(y_pred))

top30_value(y_true, y_pred) == mean_of(y_pred, Rat(top30_sum(y_true, y_pred), 1))

\* (y_pred[:,0] == y_true): numpy compares element by element and
\* broadcasts a side of length 1; other shapes do not compare.
first_column(y_pred) == [i \in 1..Len(y_pred) |-> y_pred[i][1]]
broadcastable(n, m) == n = m \/ n = 1 \/ m = 1
equal_mask(col, y_true) ==
    [i \in 1..(IF Len(col) = 1 THEN Len(y_true) ELSE Len(col)) |->
        (IF Len(col) = 1 THEN col[1] ELSE col[i])
        = (IF Len(y_true) = 1 THEN y_true[1] ELSE y_true[i])]
count_true(mask) == Cardinality({i \in 1..Len(mask) : mask[i]})
accuracy_value(y_true, y_pred) ==
    LET mask == equal_mask(first_column(y_pred), y_true)
    IN  Rat(count_true(mask), Len(mask))

\* The loop of mean_rank_score: score += rank+1 for every sample found.
rank_sum(y_true, y_pred) ==
    SumInt([idx \in 1..Len(y_pred) |->
               IF found(y_true, y_pred[idx], idx)
               THEN first_rank(y_pred[idx], y_true[idx]) ELSE 0],
           1, Len(y_pred))

\* A denominator that counted every sample.
n_samples(y_true, y_pred) == Len(y_pred)

\* n_predicted: the samples whose true label was found in their row.
n_predicted(y_true, y_pred) ==
    Cardinality({idx \in 1..Len(y_pred) : found(y_true, y_pred[idx], idx)})

ScoreArgs(y_true, y_pred) == [NoArgs EXCEPT !.y_true = y_true, !.y_pred = y_pred]

mrr_score(y_true, y_pred) ==
    /\ pc' = "returned"
    /\ args' = ScoreArgs(y_true, y_pred)
    /\ result' = Number("mrr_score", mrr_value(y_true, y_pred))
    /\ UNCHANGED inst

top30_score(y_true, y_pred) ==
    /\ pc' = "returned"
    /\ args' = ScoreArgs(y_true, y_pred)
    /\ result' = Number("top30_score", top30_value(y_true, y_pred))
    /\ UNCHANGED inst

\* Shapes that do not broadcast raise ValueError, or, with a numpy that
\* answers False to the comparison, AttributeError on False.mean(); the
\* mean of an empty comparison is nan.
accuracy_score(y_true, y_pred) ==
    /\ pc' = "returned"
    /\ args' = ScoreArgs(y_true, y_pred)
    /\ IF ~broadcastable(Len(y_pred), Len(y_true))
       THEN \E exc \in {ValidationError, AttributeError} :
               result' = Raised("accuracy_score", exc)
       ELSE IF Len(equal_mask(first_column(y_pred), y_true)) = 0
       THEN result' = Sentinel("accuracy_score", "nan")
       ELSE result' = Number("accuracy_score", accuracy_value(y_true, y_pred))
    /\ UNCHANGED inst

mean_rank_score(y_true, y_pred) ==
    /\ pc' = "returned"
    /\ args' = ScoreArgs(y_true, y_pred)
    /\ result' =
         IF n_predicted(y_true, y_pred) = 0 THEN Sentinel("mean_rank_score", "no")
         ELSE Number("mean_rank_score",
                     RatMul(Rat(1, n_predicted(y_true, y_pred)),
                            Rat(rank_sum(y_true, y_pred), 1)))
    /\ UNCHANGED inst

\* score(X, y) = top30_score(y, predict(X))
score(X, y, probas, order) ==
    /\ pc = "idle"
    /\ pc' = "returned"
    /\ args' = [NoArgs EXCEPT !.X = X, !.y = y, !.probas = probas,
                              !.y_true = IF predict_outcome(X) = "ok" THEN y ELSE <<>>,
                              !.y_pred = IF predict_outcome(X) = "ok"
                                         THEN y_predicted(order) ELSE <<>>]
    /\ result' =
         IF predict_outcome(X) # "ok" THEN Raised("score", predict_outcome(X))
         ELSE Number("score", top30_value(y, y_predicted(order)))
    /\ UNCHANGED inst

\* ------------------------------------------------------------ the callers
XInputs == SeqsUpTo(FeatureVals, MaxN)
YInputs == SeqsUpTo(Labels, MaxN)

fit_step == pc = "idle" /\ \E X \in XInputs, y \in YInputs : fit(X, y)

predict_step ==
    /\ pc = "idle"
    /\ \E X \in XInputs, return_proba \in BOOLEAN :
        \E probas \in ProbaMatrices(X) :
            \E order \in Argsorts(probas) : predict(X, return_proba, probas, order)

score_step ==
    /\ pc = "idle"
    /\ \E X \in XInputs, y \in YInputs :
        \E probas \in ProbaMatrices(X) :
            \E order \in Argsorts(probas) : score(X, y, probas, order)

\* The usual evaluation: a metric of the ranking predict has just returned.
PredictReturned == pc = "returned" /\ result.op = "predict" /\ result.outcome = "ok"

mrr_step == PredictReturned /\ \E y \in YInputs : mrr_score(y, result.labels)
top30_step == PredictReturned /\ \E y \in YInputs : top30_score(y, result.labels)
accuracy_step == PredictReturned /\ \E y \in YInputs : accuracy_score(y, result.labels)
mean_rank_step == PredictReturned /\ \E y \in YInputs : mean_rank_score(y, result.labels)

Next ==
    \/ fit_step
    \/ predict_step
    \/ score_step
    \/ mrr_step
    \/ top30_step
    \/ accuracy_step
    \/ mean_rank_step
    \/ Return

Spec == Init /\ [][Next]_vars

\* ------------------------------------------------- the metrics on their own
\* The scoring methods read nothing of self: here they are applied to
\* arguments fixed at the start, on an instance of the bare base class.
PredictionMatrices(S, n, k) == UNION {[1..r -> [1..w -> S]] : r \in 1..n, w \in 1..k}

\* Every small pair of arguments, of equal length or not.
SmallScoreInputs ==
    {<<t, p>> : t \in SeqsUpTo(Labels, MaxRows), p \in PredictionMatrices(Labels, MaxRows, MaxK)}

\* The scenarios of the specification.
ScenarioInputs ==
    { <<(<<5>>), <<(<<5, 3, 1>>)>> >>,
      <<(<<5>>), <<(<<3, 5, 1>>)>> >>,
      <<(<<9>>), <<(<<3, 5, 1>>)>> >>,
      <<(<<5, 9>>), <<(<<5, 3>>), (<<3, 1>>)>> >> }

\* Around the 30 of top30_score: n samples with the same true label t and
\* the same row 1, 2, ..., k (t = k + 1 is in no row).
AroundTop30 == (Top30 - 1)..(Top30 + 1)
WideScoreInputs ==
    {<<[i \in 1..n |-> t], [i \in 1..n |-> [j \in 1..k |-> j]]>> :
        n \in AroundTop30, k \in AroundTop30, t \in 1..(Top30 + 2)}

ScoreInputs == SmallScoreInputs \cup ScenarioInputs \cup WideScoreInputs

InitScore ==
    /\ clf = [present |-> FALSE, predict_proba |-> FALSE, classes_ |-> <<>>]
    /\ ranking_size = 0
    /\ attrs = {}
    /\ X_ = <<>>
    /\ y_ = <<>>
    /\ classes_ = <<>>
    /\ pc = "idle"
    /\ \E in \in ScoreInputs : args = ScoreArgs(in[1], in[2])
    /\ result = NoResult

mrr_apply == mrr_score(args.y_true, args.y_pred)
top30_apply == top30_score(args.y_true, args.y_pred)
accuracy_apply == accuracy_score(args.y_true, args.y_pred)
mean_rank_apply == mean_rank_score(args.y_true, args.y_pred)

NextScore == mrr_apply \/ top30_apply \/ accuracy_apply \/ mean_rank_apply

SpecScore == InitScore /\ [][NextScore]_vars

\* ------------------------------------------------------------- properties
\* What the statements below say about the arguments of the last call.
YT == args.y_true
YP == args.y_pred
NSamples == Len(YP)
RowWidth == Len(YP[1])
SameLength == Len(YT) = NSamples
Fitted == hasattr("X_") /\ hasattr("y_")
Usable == clf.present /\ clf.predict_proba

\* The position (from 1) of the first v in row, 0 when there is none.
FirstOcc(row, v) ==
    IF \E j \in 1..Len(row) : row[j] = v
    THEN CHOOSE j \in 1..Len(row) : row[j] = v /\ \A k \in 1..(j - 1) : row[k] # v
    ELSE 0

\* The samples whose true label is first found at position p of their row.
FoundAt(p) == {i \in 1..NSamples : FirstOcc(YP[i], YT[i]) = p}
FoundSomewhere == {i \in 1..NSamples : FirstOcc(YP[i], YT[i]) > 0}

\* The sum over the positions 1..p of (samples first found there) / position.
ReciprocalSum(p) == SumRat([j \in 1..p |-> Rat(Cardinality(FoundAt(j)), j)], 1, p)

\* The sum over the positions 1..p of (samples first found there) * position.
PositionSum(p) == SumInt([j \in 1..p |-> j * Cardinality(FoundAt(j))], 1, p)

\* The samples whose true label is among the first min(30, K) entries.
HitsInRowWindow ==
    {i \in 1..NSamples : \E j \in 1..Min2(Top30, Len(YP[i])) : YP[i][j] = YT[i]}
TopOneHits == {i \in 1..NSamples : YP[i][1] = YT[i]}

ScoringOps == {"mrr_score", "top30_score", "accuracy_score", "mean_rank_score"}

\* C1: top30_score is the hit rate over the first min(30, K) entries of each
\* row, K the row width: the number of samples whose true label is among
\* them, divided by the number of samples.
C1_Top30IsHitRateOverRowWidth ==
    (result.op = "top30_score" /\ SameLength)
        => /\ result.outcome = "ok"
           /\ result.kind = "number"
           /\ result.num = Rat(Cardinality(HitsInRowWindow), NSamples)

\* C2: predict on an instance that was never fitted raises NotFittedError,
\* whatever X is and whether or not there is a usable clf.
C2_UnfittedPredictRaisesNotFitted ==
    (result.op = "predict" /\ ~Fitted) => result.outcome = NotFittedError

\* C2, amended: on an instance that was never fitted, predict raises
\* NotFittedError for every X when clf is there and has predict_proba (the
\* check comes before the validation of X), and NotImplementedError when
\* clf is missing or has no predict_proba.
C2_UnfittedPredictRaises ==
    (result.op = "predict" /\ ~Fitted)
        => result.outcome = (IF Usable THEN NotFittedError ELSE NotImplemented)

C2_Witness ==
    /\ result.op = "predict"
    /\ ~Fitted
    /\ Usable
    /\ ~check_array(args.X)
    /\ result.outcome = NotFittedError

\* The column of a label in the fitted class list.
ClassIndex(l) == CHOOSE c \in 1..Len(classes_) : classes_[c] = l

\* C3: on a fitted instance with ranking_size K >= 1 and C classes, predict
\* returns for every sample min(K, C) distinct labels of the class list, the
\* ones with the highest probabilities of the sample's row, each no less
\* probable than the next.
C3_PredictRanksTopK ==
    (result.op = "predict" /\ result.outcome = "ok" /\ ranking_size >= 1)
        => /\ Fitted
           /\ Len(result.labels) = Len(args.X)
           /\ \A i \in 1..Len(args.X) :
                LET row == result.labels[i]
                    P == args.probas[i]
                IN  /\ Len(row) = Min2(ranking_size, Len(classes_))
                    /\ \A j \in 1..Len(row) : row[j] \in Range(classes_)
                    /\ \A j, k \in 1..Len(row) : j # k => row[j] # row[k]
                    /\ \A j \in 1..(Len(row) - 1) :
                          P[ClassIndex(row[j])] >= P[ClassIndex(row[j + 1])]
                    /\ \A j \in 1..Len(row) : \A c \in 1..Len(classes_) :
                          classes_[c] \notin Range(row) => P[ClassIndex(row[j])] >= P[c]

C3_Witness ==
    /\ result.op = "predict"
    /\ result.outcome = "ok"
    /\ ranking_size >= 1
    /\ ranking_size < Len(classes_)
    /\ Len(args.X) = 2
    /\ result.labels[1] # result.labels[2]

\* C4: a scoring function called with a number of true labels other than
\* the number of prediction rows raises ValidationError and gives no score.
C4_LengthMismatchRaises ==
    (result.op \in ScoringOps /\ ~SameLength) => result.outcome = ValidationError

C6_MeanRankOverFound ==
    (result.op = "mean_rank_score" /\ SameLength)
        => /\ result.outcome = "ok"
           /\ IF FoundSomewhere = {}
              THEN result.kind = "no"
              ELSE /\ result.kind = "number"
                   /\ result.num = Rat(PositionSum(RowWidth), Cardinality(FoundSomewhere))

\* y_true = [5, 9], y_pred = [[5, 3], [3, 1]] gives 1.0
C6_Witness ==
    /\ result.op = "mean_rank_score"
    /\ YT = <<5, 9>>
    /\ YP = <<(<<5, 3>>), (<<3, 1>>)>>
    /\ result.kind = "number"
    /\ result.num = One

WindowWidth == Len(top30_window(YP, YP[1]))

C9_FitStoresThisCall ==
    (result.op = "fit" /\ result.outcome = "ok")
        => /\ X_ = args.X
           /\ y_ = args.y
           /\ classes_ = (IF clf.present THEN clf.classes_ ELSE unique_labels(args.y))

\* C10: only a successful fit changes X_, y_ and classes_ (or makes them
\* attributes): predict, score and the scoring functions leave them as they
\* are, so does a fit whose input fails validation, and a fitted instance
\* stays fitted.
C10_OnlyFitChangesFittedState ==
    [][/\ (<<attrs, X_, y_, classes_>>' # <<attrs, X_, y_, classes_>>)
            => (result'.op = "fit" /\ result'.outcome = "ok")
       /\ Fitted => Fitted']_vars

C10_Witness ==
    /\ Fitted
    /\ result.op = "fit"
    /\ result.outcome = ValidationError
    /\ X_ # args.X
====
